---- MODULE Spec2Model ----
(***************************************************************************)
(* The tiered data cache of the battery dashboard backend                  *)
(* (src/src/backend/cache_manager.py, class DataCacheManager): the cache   *)
(* index, its persisted file, the data and metadata blobs of the disk      *)
(* tier, the bounded in-memory tier and the clock that validity reads.     *)
(*                                                                         *)
(* Identifiers are small integers, a DataFrame is a token that stands for  *)
(* its rows, columns and values, and time is counted in clock ticks.       *)
(* Every handler is one atomic action: DataCacheManager's methods are      *)
(* synchronous and never yield.  What the file system does to a handler    *)
(* (a write or a deletion that raises) is an input of the action.          *)
(***************************************************************************)
EXTENDS Integers, Sequences, FiniteSets, TLC

\* ------------------------------------------------------------------ bounds
NumIds == 2            \* identifiers of Spec: 1..NumIds
ExtraIds == 1          \* identifiers of SpecMem beyond the memory capacity
NumTables == 2         \* distinct DataFrames
MaxTime == 3           \* the clock runs over 0..MaxTime
MaxFaults == 1         \* I/O failures (a write, a read or a deletion that raises) in one run
NumNames == 2          \* distinct display names
MaxParts == 2          \* fragments of a column name
MaxColumns == 2        \* columns of a table

\* ------------------------------------------------------- program constants
\* self.memory_cache_max_size = 5
memory_cache_max_size == 5
\* self.max_cache_age = timedelta(hours=max_cache_age_hours), in clock ticks
max_cache_age == 2

FileIds == 1..NumIds
MemFileIds == 1..(memory_cache_max_size + ExtraIds)
DataFrames == 1..NumTables
FileNames == 1..NumNames
\* file_info['name'] of the remote listing; the other names are what a
\* renamed file or a failed lookup ('Unknown_<id>') gives
ListedName == 1
Times == 0..MaxTime
\* Python's None, as the return value of get_cached_data
None == 0

VARIABLES
    memory_cache,      \* self.memory_cache: dict in insertion order, as a sequence of [file_id, df]
    cache_index,       \* self.cache_index: file_id -> index record
    index_file,        \* cache/cache_index.json
    data_files,        \* cache/data/<cache_key>.pkl
    metadata_files,    \* cache/metadata/<cache_key>.json
    now,               \* datetime.now()
    io_failures,       \* the I/O failures met so far
    process,           \* "up": the module holds its DataCacheManager; "down": its construction raised
    preload,           \* the preload_popular_files task: its arguments, locals and position
    history,           \* what the request handler and the preload task stored, per identifier
    last               \* the last operation: its arguments, what it returned and what it met

vars == <<memory_cache, cache_index, index_file, data_files, metadata_files, now, io_failures,
          process, preload, history, last>>

\* ------------------------------------------------------------ dictionaries
\* del d[k]
Without(d, k) == [x \in (DOMAIN d) \ {k} |-> d[x]]
\* d[k] = v
With(d, k, v) == [x \in (DOMAIN d) \cup {k} |-> IF x = k THEN v ELSE d[x]]
\* {}
EmptyDict == [x \in {} |-> 0]
\* set(seq): the elements of a list
Listed(seq) == {seq[k] : k \in 1..Len(seq)}

\* ------------------------------------------------------------- conversions
\* As _get_cache_key, with the time of the call in the name
_get_cache_key_timed(file_id) == [md5 |-> <<file_id, now>>]

\* hashlib.md5(file_id.encode()).hexdigest(): the digest, one per identifier
_get_cache_key(file_id) == [md5 |-> file_id]

\* datetime.isoformat() and datetime.fromisoformat()
isoformat(t) == [iso |-> t]
fromisoformat(s) == s.iso

\* pickle.dump(df, f) of a write that completes, and the file a write that
\* raises part way leaves behind (open(..., 'wb') has truncated it)
pickle_dump(df) == [ok |-> TRUE, pickle |-> df]
TruncatedPickle == [ok |-> FALSE, pickle |-> None]
\* pickle.load(f): raises on a file that is no complete pickle
pickle_load(blob) == [raised |-> ~blob.ok, df |-> blob.pickle]

\* json.dump(metadata, f): the metadata of cache_data, lines 185-198
MetadataJson(file_id, file_name) ==
    [ok |-> TRUE, file_id |-> file_id, file_name |-> file_name]
TruncatedJson == [ok |-> FALSE, file_id |-> 0, file_name |-> 0]

\* ------------------------------------------------------------ memory tier
Residents(mc) == {mc[i].file_id : i \in 1..Len(mc)}
\* self.memory_cache[file_id]
MemoryGet(mc, file_id) == mc[CHOOSE i \in 1..Len(mc) : mc[i].file_id = file_id].df
\* del self.memory_cache[file_id]
MemoryDel(mc, file_id) == SelectSeq(mc, LAMBDA e : e.file_id # file_id)
\* As MemorySet, keeping the table of a key that is resident (dict.setdefault)
MemorySetDefault(mc, file_id, df) ==
    IF file_id \in Residents(mc) THEN mc
    ELSE Append(mc, [file_id |-> file_id, df |-> df])

\* self.memory_cache[file_id] = df: a resident key keeps its place, a new one goes last
MemorySet(mc, file_id, df) ==
    IF file_id \in Residents(mc)
    THEN [i \in 1..Len(mc) |-> IF mc[i].file_id = file_id
                               THEN [file_id |-> file_id, df |-> df] ELSE mc[i]]
    ELSE Append(mc, [file_id |-> file_id, df |-> df])

\* while len(self.memory_cache) >= self.memory_cache_max_size:
\*     oldest_key = next(iter(self.memory_cache)); del self.memory_cache[oldest_key]
\* As EvictWhileFull, evicting the entry inserted last (dict.popitem())
RECURSIVE EvictNewestWhileFull(_)
EvictNewestWhileFull(mc) ==
    IF Len(mc) >= memory_cache_max_size
    THEN EvictNewestWhileFull(SubSeq(mc, 1, Len(mc) - 1)) ELSE mc

\* As EvictWhileFull, evicting only above the capacity (> for >=)
RECURSIVE EvictWhileOverFull(_)
EvictWhileOverFull(mc) ==
    IF Len(mc) > memory_cache_max_size THEN EvictWhileOverFull(Tail(mc)) ELSE mc

RECURSIVE EvictWhileFull(_)
EvictWhileFull(mc) ==
    IF Len(mc) >= memory_cache_max_size THEN EvictWhileFull(Tail(mc)) ELSE mc

\* As _add_to_memory_cache, evicting only for a key that is not resident
_add_to_memory_cache_new_keys(mc, file_id, df) ==
    IF file_id \in Residents(mc)
    THEN MemorySet(mc, file_id, df)
    ELSE MemorySet(EvictWhileFull(mc), file_id, df)

_add_to_memory_cache(mc, file_id, df) == MemorySet(EvictWhileFull(mc), file_id, df)

\* ---------------------------------------------------------------- validity
\* As _is_cache_valid, with <= for <
_is_cache_valid_inclusive(index, clock, file_id) ==
    IF file_id \notin DOMAIN index THEN FALSE
    ELSE clock - fromisoformat(index[file_id].last_updated) <= max_cache_age

_is_cache_valid(index, clock, file_id) ==
    IF file_id \notin DOMAIN index THEN FALSE
    ELSE LET cached_time == fromisoformat(index[file_id].last_updated)
         IN  clock - cached_time < max_cache_age

\* ------------------------------------------------------------- index file
NoIndexFile == [state |-> "absent", index |-> EmptyDict]
\* _save_cache_index: the exception of a failed open or a failed write is
\* logged and swallowed; a failed write leaves the truncated file behind
_save_cache_index(ifile, index, fault) ==
    CASE fault = "index_open"  -> ifile
      [] fault = "index_write" -> [state |-> "corrupt", index |-> EmptyDict]
      [] OTHER                 -> [state |-> "ok", index |-> index]

\* _load_cache_index, called by __init__ at line 40: {} when the file is
\* absent, its content when it loads.  When the file is unreadable or no JSON
\* the except branch calls self.logger.warning, and __init__ sets self.logger
\* only at line 48: the AttributeError leaves _load_cache_index
_load_cache_index(ifile, fault) ==
    IF ifile.state = "absent" THEN [raised |-> FALSE, index |-> EmptyDict]
    ELSE IF ifile.state = "ok" /\ fault # "read"
    THEN [raised |-> FALSE, index |-> ifile.index]
    ELSE [raised |-> TRUE, index |-> EmptyDict]

\* The store an operation reads and writes
Store == [memory_cache |-> memory_cache, cache_index |-> cache_index,
          index_file |-> index_file, data_files |-> data_files,
          metadata_files |-> metadata_files]

\* --------------------------------------------------------- get_cached_data
\* As get_cached_data, checking validity before the memory tier
get_cached_data_valid_first(s, clock, file_id, fault) ==
    IF ~_is_cache_valid(s.cache_index, clock, file_id)
    THEN [ret |-> None, tier |-> "invalid", memory_cache |-> s.memory_cache]
    ELSE IF file_id \in Residents(s.memory_cache)
    THEN [ret |-> MemoryGet(s.memory_cache, file_id), tier |-> "memory",
          memory_cache |-> s.memory_cache]
    ELSE IF _get_cache_key(file_id) \notin DOMAIN s.data_files
    THEN [ret |-> None, tier |-> "dangling", memory_cache |-> s.memory_cache]
    ELSE LET loaded == pickle_load(s.data_files[_get_cache_key(file_id)])
         IN  IF fault = "read" \/ loaded.raised
             THEN [ret |-> None, tier |-> "unreadable", memory_cache |-> s.memory_cache]
             ELSE [ret |-> loaded.df, tier |-> "disk",
                   memory_cache |-> _add_to_memory_cache(s.memory_cache, file_id, loaded.df)]

\* As get_cached_data, with the memory tier populated before the blob is
\* known to load
get_cached_data_eager(s, clock, file_id, fault) ==
    IF file_id \in Residents(s.memory_cache)
    THEN [ret |-> MemoryGet(s.memory_cache, file_id), tier |-> "memory",
          memory_cache |-> s.memory_cache]
    ELSE IF ~_is_cache_valid(s.cache_index, clock, file_id)
    THEN [ret |-> None, tier |-> "invalid", memory_cache |-> s.memory_cache]
    ELSE IF _get_cache_key(file_id) \notin DOMAIN s.data_files
    THEN [ret |-> None, tier |-> "dangling",
          memory_cache |-> _add_to_memory_cache(s.memory_cache, file_id, None)]
    ELSE LET loaded == pickle_load(s.data_files[_get_cache_key(file_id)])
         IN  IF fault = "read" \/ loaded.raised
             THEN [ret |-> None, tier |-> "unreadable",
                   memory_cache |-> _add_to_memory_cache(s.memory_cache, file_id, None)]
             ELSE [ret |-> loaded.df, tier |-> "disk",
                   memory_cache |-> _add_to_memory_cache(s.memory_cache, file_id, loaded.df)]

\* What get_cached_data(file_id) returns and the memory tier it leaves.
\* fault "read": open(cache_file, 'rb') or the read raises.
get_cached_data(s, clock, file_id, fault) ==
    IF file_id \in Residents(s.memory_cache)
    THEN [ret |-> MemoryGet(s.memory_cache, file_id), tier |-> "memory",
          memory_cache |-> s.memory_cache]
    ELSE IF ~_is_cache_valid(s.cache_index, clock, file_id)
    THEN [ret |-> None, tier |-> "invalid", memory_cache |-> s.memory_cache]
    ELSE LET cache_key == _get_cache_key(file_id)
         IN  IF cache_key \notin DOMAIN s.data_files
             THEN [ret |-> None, tier |-> "dangling", memory_cache |-> s.memory_cache]
             ELSE LET loaded == pickle_load(s.data_files[cache_key])
                  IN  IF fault = "read" \/ loaded.raised
                      THEN [ret |-> None, tier |-> "unreadable",
                            memory_cache |-> s.memory_cache]
                      ELSE [ret |-> loaded.df, tier |-> "disk",
                            memory_cache |->
                                _add_to_memory_cache(s.memory_cache, file_id, loaded.df)]

\* -------------------------------------------------------------- cache_data
\* The index record of lines 201-207
IndexRecord(file_id, file_name, clock) ==
    [file_name |-> file_name, last_updated |-> isoformat(clock),
     cache_key |-> _get_cache_key(file_id)]

\* As cache_data, keeping the last_updated of a record the index already
\* holds (dict.setdefault for the assignment of lines 201-207)
cache_data_keep_time(s, clock, file_id, file_name, df, fault) ==
    LET cache_key == _get_cache_key(file_id)
        written   == With(s.data_files, cache_key, pickle_dump(df))
        kept      == IF file_id \in DOMAIN s.cache_index
                     THEN fromisoformat(s.cache_index[file_id].last_updated) ELSE clock
    IN  CASE fault = "data_open" -> [s |-> s, ok |-> FALSE]
          [] fault = "data_write" ->
                [s |-> [s EXCEPT !.data_files = With(s.data_files, cache_key, TruncatedPickle)],
                 ok |-> FALSE]
          [] fault = "meta_open" ->
                [s |-> [s EXCEPT !.data_files = written], ok |-> FALSE]
          [] fault = "meta_write" ->
                [s |-> [s EXCEPT !.data_files = written,
                                 !.metadata_files = With(s.metadata_files, cache_key, TruncatedJson)],
                 ok |-> FALSE]
          [] OTHER ->
                LET index == With(s.cache_index, file_id,
                                  IndexRecord(file_id, file_name, kept))
                IN  [s |-> [memory_cache   |-> _add_to_memory_cache(s.memory_cache, file_id, df),
                            cache_index    |-> index,
                            index_file     |-> _save_cache_index(s.index_file, index, fault),
                            data_files     |-> written,
                            metadata_files |-> With(s.metadata_files, cache_key,
                                                    MetadataJson(file_id, file_name))],
                     ok |-> TRUE]

\* cache_data(file_id, file_name, df): the store it leaves and what it
\* returns.  fault names the step that raises:
\*   data_open   open(cache_file, 'wb')          nothing is written
\*   data_write  pickle.dump                     the data blob is left truncated
\*   meta_open   building the metadata or open(metadata_file, 'w')
\*   meta_write  json.dump                       the metadata blob is left truncated
\*   index_open, index_write                     inside _save_cache_index, swallowed
cache_data(s, clock, file_id, file_name, df, fault) ==
    LET cache_key == _get_cache_key(file_id)
        written   == With(s.data_files, cache_key, pickle_dump(df))
    IN  CASE fault = "data_open" -> [s |-> s, ok |-> FALSE]
          [] fault = "data_write" ->
                [s |-> [s EXCEPT !.data_files = With(s.data_files, cache_key, TruncatedPickle)],
                 ok |-> FALSE]
          [] fault = "meta_open" ->
                [s |-> [s EXCEPT !.data_files = written], ok |-> FALSE]
          [] fault = "meta_write" ->
                [s |-> [s EXCEPT !.data_files = written,
                                 !.metadata_files = With(s.metadata_files, cache_key, TruncatedJson)],
                 ok |-> FALSE]
          [] OTHER ->
                LET index == With(s.cache_index, file_id,
                                  IndexRecord(file_id, file_name, clock))
                IN  [s |-> [memory_cache   |-> _add_to_memory_cache(s.memory_cache, file_id, df),
                            cache_index    |-> index,
                            index_file     |-> _save_cache_index(s.index_file, index, fault),
                            data_files     |-> written,
                            metadata_files |-> With(s.metadata_files, cache_key,
                                                    MetadataJson(file_id, file_name))],
                     ok |-> TRUE]

\* ------------------------------------------------------- remove_from_cache
\* As remove_from_cache, deleting the index record first and the memory
\* entry last
remove_from_cache_index_first(s, file_id, fault) ==
    LET mc == IF file_id \in Residents(s.memory_cache)
              THEN MemoryDel(s.memory_cache, file_id) ELSE s.memory_cache
    IN  IF file_id \notin DOMAIN s.cache_index
        THEN [s |-> [s EXCEPT !.memory_cache = mc], raised |-> FALSE]
        ELSE LET cache_key == s.cache_index[file_id].cache_key
                 index == Without(s.cache_index, file_id)
                 s1 == [s EXCEPT !.cache_index = index]
                 s2 == [s1 EXCEPT !.data_files = Without(s.data_files, cache_key)]
                 s3 == [s2 EXCEPT !.metadata_files = Without(s.metadata_files, cache_key)]
             IN  IF cache_key \in DOMAIN s.data_files /\ fault = "rm_data"
                 THEN [s |-> s1, raised |-> TRUE]
                 ELSE IF cache_key \in DOMAIN s.metadata_files /\ fault = "rm_meta"
                 THEN [s |-> s2, raised |-> TRUE]
                 ELSE [s |-> [s3 EXCEPT !.memory_cache = mc,
                                        !.index_file = _save_cache_index(s.index_file, index, fault)],
                       raised |-> FALSE]

\* remove_from_cache(file_id): the store it leaves and whether its except
\* branch ran.  fault names the step that raises:
\*   rm_data, rm_meta          os.remove of a blob that exists
\*   index_open, index_write   inside _save_cache_index, swallowed
remove_from_cache(s, file_id, fault) ==
    LET mc == IF file_id \in Residents(s.memory_cache)
              THEN MemoryDel(s.memory_cache, file_id) ELSE s.memory_cache
        s1 == [s EXCEPT !.memory_cache = mc]
    IN  IF file_id \notin DOMAIN s.cache_index
        THEN [s |-> s1, raised |-> FALSE]
        ELSE LET cache_key == s.cache_index[file_id].cache_key
                 s2 == [s1 EXCEPT !.data_files = Without(s.data_files, cache_key)]
                 s3 == [s2 EXCEPT !.metadata_files = Without(s.metadata_files, cache_key)]
                 index == Without(s.cache_index, file_id)
             IN  IF cache_key \in DOMAIN s.data_files /\ fault = "rm_data"
                 THEN [s |-> s1, raised |-> TRUE]
                 ELSE IF cache_key \in DOMAIN s.metadata_files /\ fault = "rm_meta"
                 THEN [s |-> s2, raised |-> TRUE]
                 ELSE [s |-> [s3 EXCEPT !.cache_index = index,
                                        !.index_file = _save_cache_index(s.index_file, index, fault)],
                       raised |-> FALSE]

\* ------------------------------------------------------ clear_expired_cache
\* As ExpiredFiles, taking every key of the index
ExpiredFilesAll(index, clock) == DOMAIN index

\* expired_files of lines 256-260
ExpiredFiles(index, clock) == {f \in DOMAIN index : ~_is_cache_valid(index, clock, f)}

\* for file_id in expired_files: self.remove_from_cache(file_id)
\* order is the order of the loop, faults[file_id] what that removal meets
RECURSIVE RemoveAll(_, _, _)
RemoveAll(s, order, faults) ==
    IF order = <<>> THEN [s |-> s, raised |-> {}]
    ELSE LET r    == remove_from_cache(s, Head(order), faults[Head(order)])
             rest == RemoveAll(r.s, Tail(order), faults)
         IN  [s |-> rest.s,
              raised |-> rest.raised \cup (IF r.raised THEN {Head(order)} ELSE {})]

clear_expired_cache(s, order, faults) == RemoveAll(s, order, faults)

\* --------------------------------------------------------- get_cache_stats
\* As get_cache_stats, counting the records that fail the validity predicate
get_cache_stats_expired(s, clock) ==
    [total_cached_files  |-> Cardinality(DOMAIN s.cache_index),
     valid_cached_files  |-> Cardinality({f \in DOMAIN s.cache_index :
                                             ~_is_cache_valid(s.cache_index, clock, f)}),
     memory_cached_files |-> Len(s.memory_cache),
     cached_file_count   |-> (IF s.index_file.state = "absent" THEN 0 ELSE 1)
                                + Cardinality(DOMAIN s.data_files)
                                + Cardinality(DOMAIN s.metadata_files)]

\* get_cache_stats(): len(self.cache_index), the records for which
\* _is_cache_valid holds, len(self.memory_cache), and the walk over the
\* cache directory (the files it visits; their sizes are not modelled)
get_cache_stats(s, clock) ==
    [total_cached_files  |-> Cardinality(DOMAIN s.cache_index),
     valid_cached_files  |-> Cardinality({f \in DOMAIN s.cache_index :
                                             _is_cache_valid(s.cache_index, clock, f)}),
     memory_cached_files |-> Len(s.memory_cache),
     cached_file_count   |-> (IF s.index_file.state = "absent" THEN 0 ELSE 1)
                                + Cardinality(DOMAIN s.data_files)
                                + Cardinality(DOMAIN s.metadata_files)]

\* ---------------------------------------------------------------- __init__
\* A process start over the same cache directory, cache_manager =
\* DataCacheManager() of main_simple: the index is loaded from its file and
\* the memory tier is empty; an exception of _load_cache_index leaves
\* __init__ and the module is not loaded
__init__(s, fault) ==
    LET loaded == _load_cache_index(s.index_file, fault)
    IN  [s |-> [s EXCEPT !.cache_index = loaded.index, !.memory_cache = <<>>],
         raised |-> loaded.raised]

\* ------------------------------------------- fetch collaborator and parser
\* What drive_handler.download_file_to_memory(file_id) gives:
\*   raise    the collaborator raises
\*   none     it returns None (GoogleDriveHandler swallows its own exception)
\*   garbage  bytes that do not decode or do not parse as CSV
\*   header   a CSV of a header line and no rows
\*   csv      a CSV with rows, parsed to the DataFrame table
FailedContent(kind) == [kind |-> kind, table |-> None]
CsvContent(table) == [kind |-> "csv", table |-> table]
\* The DataFrame of a CSV without rows (df.empty)
EmptyDataFrame == -1

\* data_processor.process_csv_content(content): content.decode and
\* pd.read_csv, no preprocessing; raises on None and on bytes that do not parse
process_csv_content(content) ==
    CASE content.kind \in {"none", "garbage"} -> [raised |-> TRUE, df |-> None]
      [] content.kind = "header"             -> [raised |-> FALSE, df |-> EmptyDataFrame]
      [] OTHER                               -> [raised |-> FALSE, df |-> content.table]

\* data_processor.apply_preprocessing(df), on the tokens that stand for
\* tables: an odd token is a table with text columns, empty columns or
\* missing cells, the next even token is its numeric, filled form, which
\* preprocessing leaves as it is
apply_preprocessing(df) == IF df > 0 /\ df % 2 = 1 THEN df + 1 ELSE df

\* ----------------------------------------------------------- get_file_data
\* As get_file_data, caching the preprocessed table
get_file_data_cache_processed(s, clock, file_id, content, file_name, fault, preprocess) ==
    LET r  == get_cached_data(s, clock, file_id, fault)
        s1 == [s EXCEPT !.memory_cache = r.memory_cache]
        parsed == process_csv_content(content)
        miss(st) == [s |-> s1, status |-> st, data |-> None, df_processed |-> None,
                     tier |-> r.tier, fetched |-> content.kind # "no_handler",
                     put |-> FALSE, ok |-> FALSE, parsed |-> parsed.df, df |-> None]
    IN  IF r.ret # None
        THEN [s |-> s1, status |-> 200, data |-> r.ret,
              df_processed |-> IF preprocess THEN apply_preprocessing(r.ret) ELSE r.ret,
              tier |-> r.tier, fetched |-> FALSE, put |-> FALSE, ok |-> FALSE,
              parsed |-> None, df |-> None]
        ELSE IF content.kind \in {"no_handler", "raise"} \/ parsed.raised
                  \/ parsed.df = EmptyDataFrame
        THEN miss(500)
        ELSE LET df == apply_preprocessing(parsed.df)
                 c  == cache_data(s1, clock, file_id, file_name, df, fault)
             IN  [s |-> c.s, status |-> 200, data |-> df,
                  df_processed |-> IF preprocess THEN apply_preprocessing(df) ELSE df,
                  tier |-> r.tier, fetched |-> TRUE, put |-> TRUE, ok |-> c.ok,
                  parsed |-> parsed.df, df |-> df]

\* get_file_data(file_id, preprocess=...), an async def without an await:
\* the store it leaves and its response.  content is what the collaborator
\* gives if it is asked ("no_handler": drive_handler is None), file_name what
\* get_file_info gives, fault the I/O failure the cache meets (a read in
\* get_cached_data or a write in cache_data).  Every exception, the 503 and
\* the 404 included, leaves as a 500 through the outer except.  The response
\* carries the rows of df and the statistics of df_processed.
get_file_data(s, clock, file_id, content, file_name, fault, preprocess) ==
    LET r  == get_cached_data(s, clock, file_id, fault)
        s1 == [s EXCEPT !.memory_cache = r.memory_cache]
        parsed == process_csv_content(content)
        miss(st) == [s |-> s1, status |-> st, data |-> None, df_processed |-> None,
                     tier |-> r.tier, fetched |-> content.kind # "no_handler",
                     put |-> FALSE, ok |-> FALSE, parsed |-> parsed.df, df |-> None]
    IN  IF r.ret # None
        THEN [s |-> s1, status |-> 200, data |-> r.ret,
              df_processed |-> IF preprocess THEN apply_preprocessing(r.ret) ELSE r.ret,
              tier |-> r.tier, fetched |-> FALSE, put |-> FALSE, ok |-> FALSE,
              parsed |-> None, df |-> None]
        ELSE IF content.kind \in {"no_handler", "raise"} \/ parsed.raised
                  \/ parsed.df = EmptyDataFrame
        THEN miss(500)
        ELSE LET df == parsed.df
                 c  == cache_data(s1, clock, file_id, file_name, df, fault)
             IN  [s |-> c.s, status |-> 200, data |-> df,
                  df_processed |-> IF preprocess THEN apply_preprocessing(df) ELSE df,
                  tier |-> r.tier, fetched |-> TRUE, put |-> TRUE, ok |-> c.ok,
                  parsed |-> parsed.df, df |-> df]

\* --------------------------------------------------- preload_popular_files
\* The task before asyncio.create_task: its arguments file_list and
\* max_files, its position pc, its locals i (the candidates the loop has
\* passed) and preloaded, and what it has done so far: the positions it
\* fetched, those whose download failed, those whose cache_data returned
\* True, and the sleeps it took
NoPreload == [pc |-> "idle", file_list |-> <<>>, max_files |-> 0, i |-> 0,
              preloaded |-> 0, fetched |-> <<>>, fetch_failed |-> {}, stored |-> {},
              sleeps |-> 0]

\* As Slice, one candidate past the limit (file_list[:max_files + 1])
SliceInclusive(file_list, max_files) ==
    SubSeq(file_list, 1, IF max_files + 1 < Len(file_list) THEN max_files + 1
                         ELSE Len(file_list))

\* file_list[:max_files]
Slice(file_list, max_files) ==
    SubSeq(file_list, 1, IF max_files < Len(file_list) THEN max_files ELSE Len(file_list))

\* As preload_examine, without the validity check
preload_examine_unchecked(index, clock, p) ==
    IF p.i >= Len(Slice(p.file_list, p.max_files)) THEN [p EXCEPT !.pc = "done"]
    ELSE [p EXCEPT !.pc = "fetching"]

\* The top of one iteration of the loop, for the candidate at position
\* p.i + 1: the loop ends, or the candidate is valid and `continue` goes to
\* the next iteration at once, or the body goes on to the download
preload_examine(index, clock, p) ==
    LET candidates == Slice(p.file_list, p.max_files)
    IN  IF p.i >= Len(candidates) THEN [p EXCEPT !.pc = "done"]
        ELSE IF _is_cache_valid(index, clock, candidates[p.i + 1].id)
        THEN [p EXCEPT !.i = @ + 1, !.pc = "running"]
        ELSE [p EXCEPT !.pc = "fetching"]

\* As preload_candidate, without the try/except around the body
preload_candidate_unguarded(s, clock, p, content, fault) ==
    LET file_info == Slice(p.file_list, p.max_files)[p.i + 1]
        parsed == process_csv_content(content)
        p1 == [p EXCEPT !.i = @ + 1, !.pc = "sleeping"]
    IN  IF content.kind = "raise" \/ parsed.raised
        THEN [s |-> s, p |-> [p EXCEPT !.pc = "raised"],
              put |-> FALSE, ok |-> FALSE, parsed |-> parsed.df, df |-> None]
        ELSE IF parsed.df = EmptyDataFrame
        THEN [s |-> s, p |-> p1, put |-> FALSE, ok |-> FALSE, parsed |-> parsed.df, df |-> None]
        ELSE LET c == cache_data(s, clock, file_info.id, file_info.name, parsed.df, fault)
             IN  [s |-> c.s,
                  p |-> [p1 EXCEPT !.preloaded = @ + (IF c.ok THEN 1 ELSE 0)],
                  put |-> TRUE, ok |-> c.ok, parsed |-> parsed.df, df |-> parsed.df]

\* As preload_candidate, writing the data blob before the content is checked
preload_candidate_store_first(s, clock, p, content, fault) ==
    LET file_info == Slice(p.file_list, p.max_files)[p.i + 1]
        parsed == process_csv_content(content)
        p1 == [p EXCEPT !.i = @ + 1, !.pc = "sleeping"]
    IN  IF content.kind = "raise" \/ parsed.raised \/ parsed.df = EmptyDataFrame
        THEN [s |-> cache_data(s, clock, file_info.id, file_info.name, parsed.df,
                               "meta_open").s,
              p |-> p1, put |-> FALSE, ok |-> FALSE, parsed |-> parsed.df, df |-> None]
        ELSE LET c == cache_data(s, clock, file_info.id, file_info.name, parsed.df, fault)
             IN  [s |-> c.s,
                  p |-> [p1 EXCEPT !.preloaded = @ + (IF c.ok THEN 1 ELSE 0)],
                  put |-> TRUE, ok |-> c.ok, parsed |-> parsed.df, df |-> parsed.df]

\* The rest of the body for the candidate at position p.i + 1, lines
\* 329-361: download, parse, cache_data when the table has rows, the except
\* that logs whatever was raised, and the sleep.  (process_csv_content
\* returns a DataFrame or raises, so the isinstance branch is never taken.)
preload_candidate(s, clock, p, content, fault) ==
    LET file_info == Slice(p.file_list, p.max_files)[p.i + 1]
        parsed == process_csv_content(content)
        p1 == [p EXCEPT !.i = @ + 1, !.pc = "sleeping"]
    IN  IF content.kind = "raise" \/ parsed.raised \/ parsed.df = EmptyDataFrame
        THEN [s |-> s, p |-> p1, put |-> FALSE, ok |-> FALSE,
              parsed |-> parsed.df, df |-> None]
        ELSE LET c == cache_data(s, clock, file_info.id, file_info.name, parsed.df, fault)
             IN  [s |-> c.s,
                  p |-> [p1 EXCEPT !.preloaded = @ + (IF c.ok THEN 1 ELSE 0)],
                  put |-> TRUE, ok |-> c.ok, parsed |-> parsed.df, df |-> parsed.df]

\* ------------------------------------------------------- column classifier
\* A column name is the sequence of its characters.
\* str.lower(), character by character
UpperCase == <<"A", "B", "C", "D", "E", "F", "G", "H", "I", "J", "K", "L", "M", "N", "O", "P", "Q", "R", "S", "T", "U", "V", "W", "X", "Y", "Z">>
LowerCase == <<"a", "b", "c", "d", "e", "f", "g", "h", "i", "j", "k", "l", "m", "n", "o", "p", "q", "r", "s", "t", "u", "v", "w", "x", "y", "z">>
lower(col) ==
    [i \in 1..Len(col) |->
        IF \E k \in 1..Len(UpperCase) : UpperCase[k] = col[i]
        THEN LowerCase[CHOOSE k \in 1..Len(UpperCase) : UpperCase[k] = col[i]]
        ELSE col[i]]
\* pattern in col
in(pattern, col) ==
    \E i \in 1..(Len(col) - Len(pattern) + 1) :
        \A k \in 1..Len(pattern) : col[i + k - 1] = pattern[k]
\* col.replace(old, ''): every occurrence of old, from the left, is taken out
RECURSIVE replace(_, _)
replace(col, old) ==
    IF Len(col) < Len(old) THEN col
    ELSE IF SubSeq(col, 1, Len(old)) = old
    THEN replace(SubSeq(col, Len(old) + 1, Len(col)), old)
    ELSE <<Head(col)>> \o replace(Tail(col), old)

\* The string literals of identify_column_types
Literal ==
    [battery_temperature_m |-> <<"b", "a", "t", "t", "e", "r", "y", "_", "t", "e", "m", "p", "e", "r", "a", "t", "u", "r", "e", "_", "m">>,
     effective_battery |-> <<"e", "f", "f", "e", "c", "t", "i", "v", "e", "_", "b", "a", "t", "t", "e", "r", "y">>,
     pack_s |-> <<"p", "a", "c", "k", "_", "s">>,
     cell_voltage_cell |-> <<"c", "e", "l", "l", "_", "v", "o", "l", "t", "a", "g", "e", "_", "c", "e", "l", "l">>,
     bms00_pack |-> <<"b", "m", "s", "0", "0", "_", "p", "a", "c", "k", "_">>,
     lh_dash |-> <<"l", "h", "-">>,
     rh_dash |-> <<"r", "h", "-">>,
     t |-> <<"t">>,
     balancing_status |-> <<"_", "b", "a", "l", "a", "n", "c", "i", "n", "g", "_", "s", "t", "a", "t", "u", "s", "_">>,
     time |-> <<"t", "i", "m", "e">>,
     timestamp |-> <<"t", "i", "m", "e", "s", "t", "a", "m", "p">>,
     index |-> <<"i", "n", "d", "e", "x">>,
     current |-> <<"c", "u", "r", "r", "e", "n", "t">>,
     amp |-> <<"a", "m", "p">>,
     battery_current |-> <<"b", "a", "t", "t", "e", "r", "y", "_", "c", "u", "r", "r", "e", "n", "t">>,
     power |-> <<"p", "o", "w", "e", "r">>,
     watt |-> <<"w", "a", "t", "t">>,
     battery_power |-> <<"b", "a", "t", "t", "e", "r", "y", "_", "p", "o", "w", "e", "r">>,
     avg_suffix |-> <<"_", "a", "v", "g">>]

\* The condition of the branch of lines 79-113 that appends to category,
\* on col_lower and col_base
Matches(category, col_lower, col_base) ==
    CASE category = "temp_stats" ->
            in(Literal.battery_temperature_m, col_base) \/ in(Literal.effective_battery, col_base)
      [] category = "soc_soh" -> in(Literal.pack_s, col_base)
      [] category = "cell_voltages" -> in(Literal.cell_voltage_cell, col_base)
      [] category = "temp_cols" -> in(Literal.bms00_pack, col_base)
      [] category = "thermocouple" ->
            \/ in(Literal.lh_dash, col_lower) /\ in(Literal.t, col_lower)
            \/ in(Literal.rh_dash, col_lower) /\ in(Literal.t, col_lower)
      [] category = "cell_balancing" -> in(Literal.balancing_status, col_base)
      [] category = "time" ->
            \/ col_lower \in {Literal.time, Literal.timestamp, Literal.index}
            \/ in(Literal.time, col_lower)
      [] category = "current" ->
            \/ in(Literal.current, col_lower) \/ in(Literal.amp, col_lower)
            \/ in(Literal.battery_current, col_base)
      [] category = "power" ->
            \/ in(Literal.power, col_lower) \/ in(Literal.watt, col_lower)
            \/ in(Literal.battery_power, col_base)
      [] OTHER -> FALSE

\* col_lower = col.lower() and col_base = col_lower.replace('_avg', ''),
\* lines 74-76
col_lower(col) == lower(col)
col_base(col) == replace(lower(col), Literal.avg_suffix)

\* The keys of column_types at line 61, and with the key added at line 117
BaseCategories == {"temp_stats", "soc_soh", "cell_voltages", "temp_cols", "thermocouple",
                   "cell_balancing", "time", "current", "power"}
Categories == BaseCategories \cup {"temperature"}

\* As column_type, with the branch of current moved to the top of the chain
column_type_current_first(col) ==
    LET l == col_lower(col)
        b == col_base(col)
    IN  IF Matches("current", l, b) THEN "current"
        ELSE IF Matches("temp_stats", l, b) THEN "temp_stats"
        ELSE IF Matches("soc_soh", l, b) THEN "soc_soh"
        ELSE IF Matches("cell_voltages", l, b) THEN "cell_voltages"
        ELSE IF Matches("temp_cols", l, b) THEN "temp_cols"
        ELSE IF Matches("thermocouple", l, b) THEN "thermocouple"
        ELSE IF Matches("cell_balancing", l, b) THEN "cell_balancing"
        ELSE IF Matches("time", l, b) THEN "time"
        ELSE IF Matches("power", l, b) THEN "power"
        ELSE "none"

\* The if/elif chain of lines 79-113: the list col is appended to, "none"
\* when no branch is taken (the chain has no else)
column_type(col) ==
    LET l == col_lower(col)
        b == col_base(col)
    IN  IF Matches("temp_stats", l, b) THEN "temp_stats"
        ELSE IF Matches("soc_soh", l, b) THEN "soc_soh"
        ELSE IF Matches("cell_voltages", l, b) THEN "cell_voltages"
        ELSE IF Matches("temp_cols", l, b) THEN "temp_cols"
        ELSE IF Matches("thermocouple", l, b) THEN "thermocouple"
        ELSE IF Matches("cell_balancing", l, b) THEN "cell_balancing"
        ELSE IF Matches("time", l, b) THEN "time"
        ELSE IF Matches("current", l, b) THEN "current"
        ELSE IF Matches("power", l, b) THEN "power"
        ELSE "none"

\* As identify_column_types, with if for elif: a name is appended to the
\* list of every branch whose condition holds
identify_column_types_every_match(columns) ==
    LET base == [c \in BaseCategories |->
                    SelectSeq(columns, LAMBDA col : Matches(c, col_lower(col), col_base(col)))]
    IN  [c \in Categories |->
            IF c = "temperature"
            THEN base["temp_stats"] \o base["temp_cols"] \o base["thermocouple"]
            ELSE base[c]]

\* identify_column_types(df) on df.columns: each list holds, in the order of
\* the columns, the names appended to it; temperature is the concatenation
\* of line 116
identify_column_types(columns) ==
    LET appended == [i \in 1..Len(columns) |-> column_type(columns[i])]
        base == [c \in BaseCategories |->
                    LET at == {i \in 1..Len(columns) : appended[i] = c}
                        picked[i \in 0..Len(columns)] ==
                            IF i = 0 THEN <<>>
                            ELSE IF i \in at THEN Append(picked[i - 1], columns[i])
                            ELSE picked[i - 1]
                    IN  picked[Len(columns)]]
    IN  [c \in Categories |->
            IF c = "temperature"
            THEN base["temp_stats"] \o base["temp_cols"] \o base["thermocouple"]
            ELSE base[c]]


\* ------------------------------------------------------------ preprocessor
\* A DataFrame read from a CSV: its index (RangeIndex, or the cells of the
\* column promoted to it) and its columns in order, each a name and its
\* cells.  A cell is the CSV field it was read from: NaN for an empty field,
\* a number, or text
NaN == ""
Numbers == {"1", "4"}
Text == {"a"}
RangeIndex == <<"RangeIndex">>
\* The canonical name 'Time' of lines 159-165
TimeName == <<"T", "i", "m", "e">>
\* df.columns
columns_of(df) == [i \in 1..Len(df.columns) |-> df.columns[i].name]
\* pd.to_numeric(s, errors='coerce'): what is no number becomes NaN
to_numeric(cells) == [i \in 1..Len(cells) |-> IF cells[i] \in Numbers THEN cells[i] ELSE NaN]
\* Whether select_dtypes(include=[np.number]) keeps the column: read_csv
\* gives a numeric dtype to a column of numbers and empty fields
is_number_dtype(cells) == \A i \in 1..Len(cells) : cells[i] \in Numbers \cup {NaN}
\* Whether dropna(axis=1, how='all') drops the column
all_na(cells) == \A i \in 1..Len(cells) : cells[i] = NaN
\* Series.ffill(): a NaN takes the value above it
ffill(cells) ==
    LET filled[i \in 0..Len(cells)] ==
            IF i = 0 THEN <<>>
            ELSE IF cells[i] # NaN \/ i = 1 THEN Append(filled[i - 1], cells[i])
            ELSE Append(filled[i - 1], filled[i - 1][i - 1])
    IN  filled[Len(cells)]
\* The cells in reverse order
reversed(cells) == [i \in 1..Len(cells) |-> cells[Len(cells) + 1 - i]]
\* Series.bfill(): a NaN takes the value below it
bfill(cells) == reversed(ffill(reversed(cells)))

\* As preprocess_dataframe, with .bfill().ffill() for .ffill().bfill()
preprocess_dataframe_bfill_first(df) ==
    LET processed_df(time_cols) ==
            LET renamed == [i \in 1..Len(df.columns) |->
                               IF time_cols # <<>> /\ df.columns[i].name = time_cols[1]
                               THEN [df.columns[i] EXCEPT !.name = TimeName]
                               ELSE df.columns[i]]
                times   == {i \in 1..Len(renamed) : renamed[i].name = TimeName}
                indexed == IF time_cols = <<>> THEN [index |-> df.index, columns |-> renamed]
                           ELSE [index |-> to_numeric(renamed[CHOOSE i \in times : TRUE].cells),
                                 columns |-> SelectSeq(renamed, LAMBDA c : c.name # TimeName)]
                numeric == SelectSeq(indexed.columns, LAMBDA c : is_number_dtype(c.cells))
                kept    == SelectSeq(numeric, LAMBDA c : ~all_na(c.cells))
            IN  IF time_cols # <<>> /\ Cardinality(times) > 1
                THEN [raised |-> TRUE, df |-> df]
                ELSE [raised |-> FALSE,
                      df |-> [index |-> indexed.index,
                              columns |-> [i \in 1..Len(kept) |->
                                              [kept[i] EXCEPT !.cells = ffill(bfill(@))]]]]
    IN  processed_df(identify_column_types(columns_of(df))["time"])

\* preprocess_dataframe(df): the first time column is renamed to 'Time',
\* coerced to numbers and made the index (processed_df['Time'] is no Series
\* when two columns bear the name, and to_numeric raises); the columns of a
\* numeric dtype are kept, those that are all NaN dropped, and the rest
\* filled forward, then backward
preprocess_dataframe(df) ==
    LET processed_df(time_cols) ==
            LET renamed == [i \in 1..Len(df.columns) |->
                               IF time_cols # <<>> /\ df.columns[i].name = time_cols[1]
                               THEN [df.columns[i] EXCEPT !.name = TimeName]
                               ELSE df.columns[i]]
                times   == {i \in 1..Len(renamed) : renamed[i].name = TimeName}
                indexed == IF time_cols = <<>> THEN [index |-> df.index, columns |-> renamed]
                           ELSE [index |-> to_numeric(renamed[CHOOSE i \in times : TRUE].cells),
                                 columns |-> SelectSeq(renamed, LAMBDA c : c.name # TimeName)]
                numeric == SelectSeq(indexed.columns, LAMBDA c : is_number_dtype(c.cells))
                kept    == SelectSeq(numeric, LAMBDA c : ~all_na(c.cells))
            IN  IF time_cols # <<>> /\ Cardinality(times) > 1
                THEN [raised |-> TRUE, df |-> df]
                ELSE [raised |-> FALSE,
                      df |-> [index |-> indexed.index,
                              columns |-> [i \in 1..Len(kept) |->
                                              [kept[i] EXCEPT !.cells = bfill(ffill(@))]]]]
    IN  processed_df(identify_column_types(columns_of(df))["time"])

\* ------------------------------------------------- response of get_file_data
\* df.head(n)
head(df, n) ==
    LET first(cells) == SubSeq(cells, 1, IF n < Len(cells) THEN n ELSE Len(cells))
    IN  [index |-> IF df.index = RangeIndex THEN RangeIndex ELSE first(df.index),
         columns |-> [i \in 1..Len(df.columns) |->
                         [df.columns[i] EXCEPT !.cells = first(@)]]]

\* The number a numeric field stands for
number == ("1" :> 1) @@ ("4" :> 4)
RECURSIVE gcd(_, _)
gcd(a, b) == IF b = 0 THEN a ELSE gcd(b, a % b)
RECURSIVE sum(_)
sum(S) == IF S = {} THEN 0 ELSE LET x == CHOOSE x \in S : TRUE IN x[2] + sum(S \ {x})
\* The mean of the numbers among the cells at the rows, NaN when there is
\* none; a mean that is no whole number is written as a fraction
mean(cells, rows) ==
    LET values == {<<i, number[cells[i]]>> : i \in {r \in rows : cells[r] # NaN}}
        total  == sum(values)
        count  == Cardinality(values)
        d      == gcd(total, count)
    IN  IF values = {} THEN NaN
        ELSE IF count = d THEN ToString(total \div count)
        ELSE ToString(total \div d) \o "/" \o ToString(count \div d)

\* resample_data(df, frequency) for an index that is no DatetimeIndex:
\* df.groupby(df.index.round(0)).mean().  The rows of equal index value
\* become one row, in the order of the values, and rows without an index
\* value are left out.  For a column of text, mean raises or leaves the
\* column out, as the installed pandas does (nuisance).
resample_data(df, nuisance) ==
    LET rows    == IF df.columns = <<>> THEN {} ELSE 1..Len(df.columns[1].cells)
        keys    == IF df.index = RangeIndex THEN rows
                   ELSE {number[df.index[r]] : r \in {x \in 1..Len(df.index) : df.index[x] # NaN}}
        group(k) == IF df.index = RangeIndex THEN {k}
                    ELSE {r \in 1..Len(df.index) : df.index[r] # NaN /\ number[df.index[r]] = k}
        sorted[n \in 0..Cardinality(keys)] ==
            IF n = 0 THEN <<>>
            ELSE LET rest == keys \ Listed(sorted[n - 1])
                 IN  Append(sorted[n - 1], CHOOSE k \in rest : \A o \in rest : k <= o)
        order   == sorted[Cardinality(keys)]
        numeric == SelectSeq(df.columns, LAMBDA c : is_number_dtype(c.cells))
    IN  IF nuisance = "raise" /\ Len(numeric) < Len(df.columns)
        THEN [raised |-> TRUE, df |-> df]
        ELSE [raised |-> FALSE,
              df |-> [index |-> IF df.index = RangeIndex THEN RangeIndex
                                ELSE [n \in 1..Len(order) |-> ToString(order[n])],
                      columns |-> [i \in 1..Len(numeric) |->
                                      [name |-> numeric[i].name,
                                       cells |-> [n \in 1..Len(order) |->
                                                     mean(numeric[i].cells, group(order[n]))]]]]]

\* df_processed[valid_cols] of lines 292-296
select_columns(df, selected_columns) ==
    LET valid_cols == SelectSeq(selected_columns, LAMBDA col : col \in Listed(columns_of(df)))
    IN  IF valid_cols = <<>> THEN df
        ELSE [index |-> df.index,
              columns |-> [i \in 1..Len(valid_cols) |->
                              df.columns[CHOOSE k \in 1..Len(df.columns) :
                                            df.columns[k].name = valid_cols[i]]]]

\* The table options of a request: selected_columns (<<>> when absent),
\* preprocess, resample, preview_only, max_rows (0 when absent)
PREVIEW_ROWS == 100

\* Lines 284-368 of get_file_data, for the table df it took from the cache
\* or parsed: df_processed is a copy of df, cut to max_rows in a preview,
\* filtered to the selected columns that exist (when one does), preprocessed
\* and resampled unless in a preview.  The classification is that of
\* df_processed.  A preview returns the first rows of df_processed; the full
\* response returns the rows, index and columns of df.  An exception leaves as
\* a 500.
get_file_data_response(df, options, nuisance) ==
    LET limited  == IF options.preview_only /\ options.max_rows # 0
                    THEN head(df, options.max_rows) ELSE df
        filtered == IF options.selected_columns # <<>>
                    THEN select_columns(limited, options.selected_columns) ELSE limited
        resampled(prepared) ==
            IF options.resample /\ ~options.preview_only /\ ~prepared.raised
            THEN resample_data(prepared.df, nuisance) ELSE prepared
        response(sampled) ==
            IF sampled.raised
            THEN [status |-> 500, data |-> df, preview_mode |-> FALSE,
                  column_types |-> identify_column_types(<<>>)]
            ELSE [status |-> 200,
                  data |-> IF options.preview_only THEN head(sampled.df, PREVIEW_ROWS) ELSE df,
                  preview_mode |-> options.preview_only,
                  column_types |-> identify_column_types(columns_of(sampled.df))]
    IN  response(resampled(IF options.preprocess /\ ~options.preview_only
                           THEN preprocess_dataframe(filtered)
                           ELSE [raised |-> FALSE, df |-> filtered]))

\* ----------------------------------------------------------------- actions
GetFaults == {"none", "read"}
PutFaults == {"none", "data_open", "data_write", "meta_open", "meta_write",
              "index_open", "index_write"}
RemoveFaults == {"none", "rm_data", "rm_meta", "index_open", "index_write"}
InitFaults == {"none", "read"}

\* The record of an operation; a field an operation does not set keeps its
\* value here
NoOp == [op |-> "init", file_id |-> 0, file_name |-> 0, df |-> None, ok |-> FALSE,
         ret |-> None, tier |-> "none", evicted |-> {}, expired |-> {},
         raised |-> {}, hit_oldest |-> FALSE,
         status |-> 0, kind |-> "none", fetched |-> FALSE, put |-> FALSE,
         parsed |-> None, skipped |-> FALSE, after_put |-> FALSE, args |-> <<>>,
         over |-> [by |-> "none", file_name |-> 0, df |-> None]]

Install(s) ==
    /\ memory_cache' = s.memory_cache
    /\ cache_index' = s.cache_index
    /\ index_file' = s.index_file
    /\ data_files' = s.data_files
    /\ metadata_files' = s.metadata_files

Evicted(s) == Residents(memory_cache) \ Residents(s.memory_cache)

\* The history after a step, from the operation the step has recorded in
\* last and the memory tier it leaves.  writer: the flow (get_file_data or
\* the preload task), display name and table of the last cache_data call on
\* an identifier.  requested: the rows a get_file_data stored for an
\* identifier that has stayed in the memory tier since, and whether
\* cache_data was called again for it.
NoHistory == [writer |-> EmptyDict, requested |-> EmptyDict]
NextHistory ==
    LET f      == last'.file_id
        put    == last'.op \in {"get_table", "preload_fetch"} /\ last'.put
        stored == last'.op = "get_table" /\ last'.put /\ last'.ok
        kept   == ((DOMAIN history.requested) \cup (IF stored THEN {f} ELSE {}))
                      \cap Residents(memory_cache')
    IN  [writer |-> IF put
                    THEN With(history.writer, f,
                              [by |-> last'.op, file_name |-> last'.file_name, df |-> last'.df])
                    ELSE history.writer,
         requested |-> [g \in kept |->
                          IF stored /\ g = f THEN [rows |-> last'.ret, reput |-> FALSE]
                          ELSE IF put /\ g = f THEN [history.requested[g] EXCEPT !.reput = TRUE]
                          ELSE history.requested[g]]]

Init ==
    /\ memory_cache = <<>>
    /\ cache_index = EmptyDict
    /\ index_file = NoIndexFile
    /\ data_files = EmptyDict
    /\ metadata_files = EmptyDict
    /\ now = 0
    /\ io_failures = 0
    /\ process = "up"
    /\ preload = NoPreload
    /\ history = NoHistory
    /\ last = NoOp

\* An operation meets the failure it is given only within the bound
Meets(fault) ==
    /\ fault # "none" => io_failures < MaxFaults
    /\ io_failures' = io_failures + (IF fault = "none" THEN 0 ELSE 1)

\* datetime.now() moves on
Tick ==
    /\ now < MaxTime
    /\ now' = now + 1
    /\ last' = [NoOp EXCEPT !.op = "tick"]
    /\ UNCHANGED <<memory_cache, cache_index, index_file, data_files, metadata_files,
                   io_failures, process, preload, history>>

\* get_cached_data(file_id); a read can fail only where the blob is read
Get(file_id, fault) ==
    LET r == get_cached_data(Store, now, file_id, fault)
    IN  /\ process = "up"
        /\ fault = "read" => r.tier = "unreadable"
        /\ Meets(fault)
        /\ memory_cache' = r.memory_cache
        /\ last' = [NoOp EXCEPT !.op = "get", !.file_id = file_id,
                                !.ret = r.ret, !.tier = r.tier,
                                !.evicted = Residents(memory_cache) \ Residents(r.memory_cache)]
        /\ history' = NextHistory
        /\ UNCHANGED <<cache_index, index_file, data_files, metadata_files, now, process, preload>>

\* cache_data(file_id, file_name, df)
Put(file_id, file_name, df, fault) ==
    LET r == cache_data(Store, now, file_id, file_name, df, fault)
    IN  /\ process = "up"
        /\ Meets(fault)
        /\ Install(r.s)
        /\ last' = [NoOp EXCEPT !.op = "put", !.file_id = file_id,
                                !.file_name = file_name, !.df = df,
                                !.ok = r.ok, !.evicted = Evicted(r.s),
                                !.hit_oldest = /\ last.op = "get"
                                               /\ last.tier = "memory"
                                               /\ last.file_id = Head(memory_cache).file_id]
        /\ history' = NextHistory
        /\ UNCHANGED <<now, process, preload>>

\* Whether remove_from_cache(file_id) reaches the step that fault names
RemoveMeets(file_id, fault) ==
    CASE fault = "none"    -> TRUE
      [] fault = "rm_data" -> /\ file_id \in DOMAIN cache_index
                              /\ cache_index[file_id].cache_key \in DOMAIN data_files
      [] fault = "rm_meta" -> /\ file_id \in DOMAIN cache_index
                              /\ cache_index[file_id].cache_key \in DOMAIN metadata_files
      [] OTHER             -> file_id \in DOMAIN cache_index

\* remove_from_cache(file_id)
Remove(file_id, fault) ==
    LET r == remove_from_cache(Store, file_id, fault)
    IN  /\ process = "up"
        /\ RemoveMeets(file_id, fault)
        /\ Meets(fault)
        /\ Install(r.s)
        /\ last' = [NoOp EXCEPT !.op = "remove", !.file_id = file_id,
                                !.raised = IF r.raised THEN {file_id} ELSE {}]
        /\ history' = NextHistory
        /\ UNCHANGED <<now, process, preload>>

\* The orders in which a loop can visit the keys S
Orders(S) ==
    {o \in [1..Cardinality(S) -> S] : \A i, j \in 1..Cardinality(S) : o[i] = o[j] => i = j}
\* What the removals of one sweep meet
Failing(faults) == {x \in DOMAIN faults : faults[x] # "none"}
SweepFaults(S) ==
    {f \in [S -> RemoveFaults] : io_failures + Cardinality(Failing(f)) <= MaxFaults}

\* clear_expired_cache(): the index is visited in the dict's order, any order here
Sweep(order, faults) ==
    LET r == clear_expired_cache(Store, order, faults)
    IN  /\ process = "up"
        /\ \A x \in DOMAIN faults : RemoveMeets(x, faults[x])
        /\ io_failures' = io_failures + Cardinality(Failing(faults))
        /\ Install(r.s)
        /\ last' = [NoOp EXCEPT !.op = "sweep", !.expired = ExpiredFiles(cache_index, now),
                                !.raised = r.raised]
        /\ history' = NextHistory
        /\ UNCHANGED <<now, process, preload>>

\* The process is started again over the same cache directory, whether it
\* was up or its last start failed; its tasks are gone
Restart(fault) ==
    LET r == __init__(Store, fault)
    IN  /\ fault = "read" => index_file.state = "ok"
        /\ Meets(fault)
        /\ Install(r.s)
        /\ process' = IF r.raised THEN "down" ELSE "up"
        /\ last' = [NoOp EXCEPT !.op = "restart", !.ok = ~r.raised, !.kind = fault,
                                !.evicted = Residents(memory_cache)]
        /\ preload' = NoPreload
        /\ history' = NextHistory
        /\ UNCHANGED now

\* get_cache_stats()
Stats ==
    /\ process = "up"
    /\ last' = [NoOp EXCEPT !.op = "stats", !.ret = get_cache_stats(Store, now)]
    /\ UNCHANGED <<memory_cache, cache_index, index_file, data_files, metadata_files,
                   now, io_failures, process, preload, history>>

\* The last cache_data call of a flow on file_id
Writer(file_id) ==
    IF file_id \in DOMAIN history.writer THEN history.writer[file_id] ELSE NoOp.over

\* Whether the event loop is free for a request handler: the preload task
\* is not between two of its awaits
LoopIsFree == preload.pc \notin {"running", "fetching"}

\* What the collaborator can give when it is asked
Contents ==
    {FailedContent(k) : k \in {"raise", "none", "garbage", "header"}}
        \cup {CsvContent(t) : t \in DataFrames}

\* GET /data/{file_id}: get_file_data.  The inputs the handler does not
\* consult are held at one value.
GetTable(file_id, content, file_name, fault, preprocess) ==
    LET r == get_file_data(Store, now, file_id, content, file_name, fault, preprocess)
    IN  /\ process = "up"
        /\ LoopIsFree
        /\ fault = "read" => r.tier = "unreadable"
        /\ fault \notin {"none", "read"} => r.put
        /\ ~r.fetched => content = FailedContent("no_handler")
        /\ ~r.put => file_name = ListedName
        /\ Meets(fault)
        /\ Install(r.s)
        /\ last' = [NoOp EXCEPT !.op = "get_table", !.file_id = file_id,
                                !.file_name = file_name, !.df = r.df, !.ok = r.ok,
                                !.ret = r.data, !.tier = r.tier, !.status = r.status,
                                !.kind = content.kind, !.fetched = r.fetched,
                                !.put = r.put, !.parsed = r.parsed,
                                !.evicted = Evicted(r.s), !.over = Writer(file_id)]
        /\ history' = NextHistory
        /\ UNCHANGED <<now, process, preload>>

\* asyncio.create_task(cache_manager.preload_popular_files(drive_handler,
\* popular_files, max_files=...)) of startup_event
StartPreload(file_list, max_files) ==
    /\ process = "up"
    /\ preload.pc = "idle"
    /\ preload' = [NoPreload EXCEPT !.pc = "scheduled", !.file_list = file_list,
                                    !.max_files = max_files]
    /\ last' = [NoOp EXCEPT !.op = "start_preload"]
    /\ UNCHANGED <<memory_cache, cache_index, index_file, data_files, metadata_files,
                   now, io_failures, process, history>>

\* The task is given the loop (first run, or the sleep is over) or keeps it
\* (after `continue`), and runs the top of the next iteration
PreloadExamine ==
    LET p == preload_examine(cache_index, now, preload)
        candidates == Slice(preload.file_list, preload.max_files)
        file_id == IF preload.i < Len(candidates) THEN candidates[preload.i + 1].id ELSE 0
    IN  /\ preload.pc \in {"scheduled", "sleeping", "running"}
        /\ preload' = p
        /\ last' = [NoOp EXCEPT !.op = "preload_examine", !.file_id = file_id,
                                !.skipped = (p.pc = "running"),
                                !.after_put = /\ last.op = "get_table"
                                              /\ last.put /\ last.ok
                                              /\ last.file_id = file_id
                                              /\ preload.pc = "sleeping"]
        /\ UNCHANGED <<memory_cache, cache_index, index_file, data_files, metadata_files,
                       now, io_failures, process, history>>

\* The task, still holding the loop, runs the body for its candidate and
\* sleeps
PreloadFetch(content, fault) ==
    LET r == preload_candidate(Store, now, preload, content, fault)
        file_info == Slice(preload.file_list, preload.max_files)[preload.i + 1]
    IN  /\ preload.pc = "fetching"
        /\ fault # "none" => r.put
        /\ Meets(fault)
        /\ Install(r.s)
        /\ preload' = [r.p EXCEPT
                          !.fetched = Append(@, preload.i + 1),
                          !.fetch_failed = @ \cup (IF content.kind \in {"raise", "none"}
                                                   THEN {preload.i + 1} ELSE {}),
                          !.stored = @ \cup (IF r.ok THEN {preload.i + 1} ELSE {}),
                          !.sleeps = @ + (IF r.p.pc = "sleeping" THEN 1 ELSE 0)]
        /\ last' = [NoOp EXCEPT !.op = "preload_fetch", !.file_id = file_info.id,
                                !.file_name = file_info.name, !.df = r.df, !.ok = r.ok,
                                !.kind = content.kind, !.fetched = TRUE, !.put = r.put,
                                !.parsed = r.parsed, !.evicted = Evicted(r.s),
                                !.over = Writer(file_info.id)]
        /\ history' = NextHistory
        /\ UNCHANGED <<now, process>>

\* ---------------------------------------------------------- specifications
\* The cache store with its clock, I/O failures and restarts
Next ==
    \/ Tick
    \/ \E file_id \in FileIds, fault \in GetFaults : Get(file_id, fault)
    \/ \E file_id \in FileIds, df \in DataFrames, fault \in PutFaults :
         Put(file_id, ListedName, df, fault)
    \/ \E file_id \in FileIds, fault \in RemoveFaults : Remove(file_id, fault)
    \/ \E order \in Orders(ExpiredFiles(cache_index, now)) :
         \E faults \in SweepFaults(ExpiredFiles(cache_index, now)) : Sweep(order, faults)
    \/ \E fault \in InitFaults : Restart(fault)
    \/ Stats

Spec == Init /\ [][Next]_vars

\* The memory tier under more identifiers than it holds: no I/O failure, and
\* the clock stands still
NoFaults(S) == [x \in S |-> "none"]
\* The first identifier is put with every DataFrame, the others with one
MemDataFrames(file_id) == IF file_id = 1 THEN DataFrames ELSE {1}

NextMem ==
    \/ \E file_id \in MemFileIds : Get(file_id, "none")
    \/ \E file_id \in MemFileIds : \E df \in MemDataFrames(file_id) : Put(file_id, ListedName, df, "none")
    \/ \E file_id \in MemFileIds : Remove(file_id, "none")
    \/ \E order \in Orders(ExpiredFiles(cache_index, now)) :
         Sweep(order, NoFaults(ExpiredFiles(cache_index, now)))

SpecMem == Init /\ [][NextMem]_vars

\* The statistics over more identifiers than the memory tier holds, with the
\* clock: the identifiers enter the index in the order of their numbers, each
\* with one table, the first identifier is stored again and read at any
\* time, and there is no I/O failure
NextStats ==
    \/ Tick
    \/ \E file_id \in MemFileIds :
         /\ file_id \in {1, Cardinality(DOMAIN cache_index) + 1}
         /\ Put(file_id, ListedName, 1, "none")
    \/ Get(1, "none")
    \/ Stats

SpecStats == Init /\ [][NextStats]_vars

\* The preload task among the request handlers: candidate lists of
\* NumCandidates entries, without and with a repeated identifier, and limits
\* below and at the length of the list.  The collaborator has one table, and
\* requests name the identifiers of RequestIds.
NumCandidates == 3
PreloadIds == 1..NumCandidates
FileList(ids) == [i \in 1..Len(ids) |-> [id |-> ids[i], name |-> ListedName]]
FileLists ==
    {FileList([i \in 1..NumCandidates |-> i]),
     FileList([i \in 1..NumCandidates |-> IF i = 1 THEN 1 ELSE i - 1])}
Limits == {NumCandidates - 1, NumCandidates}
RequestIds == {1}
PreloadContents ==
    {FailedContent(k) : k \in {"raise", "none", "garbage", "header"}} \cup {CsvContent(1)}

NextPreload ==
    \/ Tick
    \/ \E file_list \in FileLists, max_files \in Limits : StartPreload(file_list, max_files)
    \/ PreloadExamine
    \/ \E content \in PreloadContents, fault \in PutFaults : PreloadFetch(content, fault)
    \/ \E file_id \in RequestIds, content \in PreloadContents \cup {FailedContent("no_handler")} :
         GetTable(file_id, content, ListedName, "none", FALSE)

SpecPreload == Init /\ [][NextPreload]_vars

\* Requests, the preload task and the sweep of /cache/clear over the
\* identifiers of FileIds, with every table.  get_file_info gives every
\* display name for the first identifier; cache_data fails, where it does,
\* in the preload task, at the write of the metadata blob.
AppFileLists == {FileList([i \in 1..NumIds |-> i])}
AppNames(file_id) == IF file_id = 1 THEN FileNames ELSE {ListedName}
AppContents == {FailedContent("raise")} \cup {CsvContent(t) : t \in DataFrames}
AppPutFaults == {"none", "meta_write"}

NextApp ==
    \/ Tick
    \/ \E file_list \in AppFileLists : StartPreload(file_list, NumIds)
    \/ PreloadExamine
    \/ \E content \in AppContents, fault \in AppPutFaults : PreloadFetch(content, fault)
    \/ \E file_id \in FileIds, content \in AppContents \cup {FailedContent("no_handler")},
          preprocess \in BOOLEAN :
         \E file_name \in AppNames(file_id) :
            GetTable(file_id, content, file_name, "none", preprocess)
    \/ \E order \in Orders(ExpiredFiles(cache_index, now)) :
         /\ LoopIsFree
         /\ Sweep(order, NoFaults(ExpiredFiles(cache_index, now)))

SpecApp == Init /\ [][NextApp]_vars

\* data_processor.identify_column_types(df), for a table with these columns.
\* BatteryDataProcessor keeps no state between calls: a behaviour makes one call
Classify(columns) ==
    /\ last.op = "init"
    /\ last' = [NoOp EXCEPT !.op = "classify", !.args = columns,
                            !.ret = identify_column_types(columns)]
    /\ UNCHANGED <<memory_cache, cache_index, index_file, data_files, metadata_files,
                   now, io_failures, process, preload, history>>

\* The pure functions of data_processor over bounded inputs.  A column name
\* is made of at most MaxParts of these fragments
NameFragments ==
    {<<"L", "H", "-">>,
     <<"T", "2", "2">>,
     <<"T", "i", "m", "e">>,
     <<"C", "u", "r", "r", "e", "n", "t">>,
     <<"P", "o", "w", "e", "r">>,
     <<"P", "a", "c", "k", "_", "a", "v", "g">>,
     <<"_", "S", "o", "C">>,
     <<"B", "M", "S", "0", "0", "_", "P", "a", "c", "k", "_">>,
     <<"x">>,
     <<"C", "e", "l", "l", "_", "V", "o", "l", "t", "a", "g", "e", "_", "C", "e", "l", "l">>,
     <<"B", "a", "t", "t", "e", "r", "y", "_", "T", "e", "m", "p", "e", "r", "a", "t", "u", "r", "e", "_", "M">>,
     <<"_", "B", "a", "l", "a", "n", "c", "i", "n", "g", "_", "S", "t", "a", "t", "u", "s", "_">>,
     <<"i", "n", "d", "e", "x">>}
RECURSIVE NamesOf(_)
NamesOf(parts) ==
    IF parts = 0 THEN {<<>>}
    ELSE LET shorter == NamesOf(parts - 1)
         IN  shorter \cup {a \o f : a \in shorter, f \in NameFragments}
ColumnNames == NamesOf(MaxParts) \ {<<>>}
\* df.columns: at most MaxColumns names, one of them of several fragments
FragmentLists == UNION {[1..n -> NameFragments] : n \in 0..MaxColumns}
ColumnLists ==
    FragmentLists \cup UNION {{[columns EXCEPT ![i] = name] :
                                  i \in 1..Len(columns), name \in ColumnNames} :
                              columns \in FragmentLists}

\* data_processor.preprocess_dataframe(df)
Preprocess(df) ==
    /\ last.op = "init"
    /\ last' = [NoOp EXCEPT !.op = "preprocess", !.args = df,
                            !.ret = preprocess_dataframe(df)]
    /\ UNCHANGED <<memory_cache, cache_index, index_file, data_files, metadata_files,
                   now, io_failures, process, preload, history>>

\* The tables: MaxRows rows; a data column of every combination of cells,
\* alone or after one of the side columns (a column of times, a column named
\* index with a text cell, a column that is all NaN, a second column named Time)
MaxRows == 4
Cells == Numbers \cup Text \cup {NaN}
DataNames == {<<"x">>, <<"C", "u", "r", "r", "e", "n", "t">>}
DataColumns == {[name |-> n, cells |-> c] : n \in DataNames, c \in [1..MaxRows -> Cells]}
SideColumns ==
    {[name |-> TimeName, cells |-> [i \in 1..MaxRows |-> "1"]],
     [name |-> <<"i", "n", "d", "e", "x">>,
      cells |-> [i \in 1..MaxRows |-> IF i = 1 THEN "a" ELSE "4"]],
     [name |-> <<"P", "o", "w", "e", "r">>, cells |-> [i \in 1..MaxRows |-> NaN]]}
Tables ==
    {[index |-> RangeIndex, columns |-> <<c>>] : c \in DataColumns}
       \cup {[index |-> RangeIndex, columns |-> <<s, c>>] : s \in SideColumns, c \in DataColumns}
       \cup {[index |-> RangeIndex, columns |-> <<s, t, c>>] :
                s \in {x \in SideColumns : x.name = <<"i", "n", "d", "e", "x">>},
                t \in {x \in SideColumns : x.name = TimeName},
                c \in {x \in DataColumns : x.name = <<"x">> /\ \A i \in 1..MaxRows : x.cells[i] = "1"}}

\* GET /data/{file_id} with its table options, from the point where the
\* handler holds the table df
Respond(df, options, nuisance) ==
    /\ last.op = "init"
    /\ nuisance = "drop" => (options.resample /\ ~options.preview_only)
    /\ last' = [NoOp EXCEPT !.op = "respond", !.args = [df |-> df, options |-> options],
                            !.ret = get_file_data_response(df, options, nuisance)]
    /\ UNCHANGED <<memory_cache, cache_index, index_file, data_files, metadata_files,
                   now, io_failures, process, preload, history>>

\* The tables of the requests: those of Tables whose data column is one of
\* three, and the requests' options
RequestTables ==
    {df \in Tables :
        df.columns[Len(df.columns)].cells \in
            {<<"1", NaN, NaN, "4">>, <<"1", "a", "4", "4">>, <<"1", "1", "1", "1">>}}
Selections == {<<>>, << <<"x">> >>, << <<"x">>, <<"y">> >>, << <<"y">> >>}
Options ==
    [selected_columns : Selections, preprocess : BOOLEAN, resample : BOOLEAN,
     preview_only : BOOLEAN, max_rows : {0, 2}]

NextData ==
    \/ \E df \in Tables : Preprocess(df)
    \/ \E df \in RequestTables, options \in Options, nuisance \in {"raise", "drop"} :
         Respond(df, options, nuisance)
    \/ \E columns \in ColumnLists : Classify(columns)

SpecData == Init /\ [][NextData]_vars

\* ------------------------------------------------------------------ claims
\* The time at which the index record of file_id was written
LastUpdated(file_id) == fromisoformat(cache_index[file_id].last_updated)
\* Whether get_cached_data could load the data blob of file_id
BlobLoads(file_id) ==
    /\ _get_cache_key(file_id) \in DOMAIN data_files
    /\ data_files[_get_cache_key(file_id)].ok

\* C1: an identifier is valid exactly when the index holds a record for it
\* and now - last_updated < max_age; an entry written at t0 is valid at every
\* time before t0 + max_age and invalid from t0 + max_age on; the blobs on
\* disk have no part in it.
C1_ValidityIsIndexAndClock ==
    /\ \A f \in FileIds :
         _is_cache_valid(cache_index, now, f)
            <=> (f \in DOMAIN cache_index /\ now - LastUpdated(f) < max_cache_age)
    /\ (last.op = "put" /\ last.ok) =>
         \A t \in now..(now + max_cache_age + 1) :
            _is_cache_valid(cache_index, t, last.file_id) <=> (t < now + max_cache_age)

\* One identifier is at the boundary (now = last_updated + max_age) and is
\* invalid although its blob loads; another is valid although it has no blob
C1_Witness ==
    \E f, g \in FileIds :
        /\ f \in DOMAIN cache_index
        /\ now = LastUpdated(f) + max_cache_age
        /\ ~_is_cache_valid(cache_index, now, f)
        /\ BlobLoads(f)
        /\ _is_cache_valid(cache_index, now, g)
        /\ _get_cache_key(g) \notin DOMAIN data_files

\* C2: a new identifier inserted into a memory tier that holds 5 entries
\* evicts exactly the resident inserted first; a get served from the memory
\* tier does not reorder the tier, so a hit of the oldest resident right
\* before the insertion does not save it.
C2_EvictsOldestInserted ==
    [][ /\ (last'.op = "get" /\ last'.tier = "memory") => memory_cache' = memory_cache
        /\ ( /\ last'.op = "put"
             /\ last'.ok
             /\ Len(memory_cache) = memory_cache_max_size
             /\ last'.file_id \notin Residents(memory_cache) )
           => /\ memory_cache' = Append(Tail(memory_cache),
                                        [file_id |-> last'.file_id, df |-> last'.df])
              /\ Head(memory_cache).file_id \notin Residents(memory_cache')
      ]_vars

\* A new identifier has been inserted into the full tier right after a
\* memory hit of the oldest resident, and that resident is the one evicted
C2_Witness ==
    /\ last.op = "put"
    /\ last.ok
    /\ last.hit_oldest
    /\ Cardinality(last.evicted) = 1
    /\ last.file_id \notin last.evicted
    /\ Len(memory_cache) = memory_cache_max_size

\* C3: the memory tier holds at most 5 identifiers, each once.
C3_MemoryTierBounded ==
    /\ Cardinality(Residents(memory_cache)) <= memory_cache_max_size
    /\ Len(memory_cache) = Cardinality(Residents(memory_cache))

\* An insertion into the full tier has evicted a resident and the tier holds 5
C3_Witness ==
    /\ last.op \in {"put", "get"}
    /\ last.evicted # {}
    /\ Len(memory_cache) = memory_cache_max_size

\* C4: after a put(id, name, T) that returned success, get(id) returns T,
\* whatever the index, the disk tier and the memory tier were before the put.
C4_PutThenGet ==
    (last.op = "put" /\ last.ok) =>
        \A fault \in GetFaults :
            get_cached_data(Store, now, last.file_id, fault).ret = last.df

\* The put found the memory tier full and the identifier resident in it: it
\* evicted another resident and replaced the table the tier held for it
C4_Witness ==
    /\ last.op = "put"
    /\ last.ok
    /\ last.evicted # {}
    /\ last.file_id \notin last.evicted
    /\ Len(memory_cache) = memory_cache_max_size - 1
    /\ last.df = 2
\* What get_cached_data(file_id) would return from the disk tier: its result
\* for a process that holds nothing in memory
DiskTierGet(file_id) ==
    get_cached_data([Store EXCEPT !.memory_cache = <<>>], now, file_id, "none").ret
\* What get_cached_data(file_id) would return from the memory tier
MemoryTierGet(file_id) ==
    IF file_id \in Residents(memory_cache) THEN MemoryGet(memory_cache, file_id) ELSE None

\* C5: a put that returns failure leaves the prior cache state unmodified:
\* the index, the memory tier and the table a later get(id) returns from
\* either tier are what they were before the call.
C5_FailedPutChangesNothing ==
    [][ (last'.op = "put" /\ ~last'.ok)
           => /\ cache_index' = cache_index
              /\ memory_cache' = memory_cache
              /\ \A f \in FileIds : /\ MemoryTierGet(f)' = MemoryTierGet(f)
                                    /\ DiskTierGet(f)' = DiskTierGet(f)
      ]_vars

\* C6: put returns success only if the data blob, the metadata blob and the
\* rewritten index file were all written.
C6_SuccessMeansAllWritten ==
    (last.op = "put" /\ last.ok) =>
        LET cache_key == _get_cache_key(last.file_id)
        IN  /\ cache_key \in DOMAIN data_files
            /\ data_files[cache_key] = pickle_dump(last.df)
            /\ cache_key \in DOMAIN metadata_files
            /\ metadata_files[cache_key] = MetadataJson(last.file_id, last.file_name)
            /\ index_file = [state |-> "ok", index |-> cache_index]

\* C7: get(id) returns the table the memory tier holds for id, with no
\* validity check: also when the index record of id has expired.
C7_MemoryHitUnchecked ==
    [][ (last'.op = "get" /\ last'.file_id \in Residents(memory_cache))
           => /\ last'.ret = MemoryGet(memory_cache, last'.file_id)
              /\ last'.tier = "memory"
              /\ memory_cache' = memory_cache
      ]_vars

\* A get was served from the memory tier for an identifier whose index
\* record had expired
C7_Witness ==
    /\ last.op = "get"
    /\ last.tier = "memory"
    /\ last.ret # None
    /\ last.file_id \in DOMAIN cache_index
    /\ now - LastUpdated(last.file_id) >= max_cache_age

\* C8: when id is not in the memory tier and its index record is valid but
\* the data blob is missing or does not deserialize, get(id) returns a miss
\* and leaves the index and the memory tier as they were.
C8_DanglingIsMiss ==
    [][ ( /\ last'.op = "get"
          /\ last'.file_id \notin Residents(memory_cache)
          /\ _is_cache_valid(cache_index, now, last'.file_id)
          /\ ~BlobLoads(last'.file_id) )
           => /\ last'.ret = None
              /\ cache_index' = cache_index
              /\ memory_cache' = memory_cache
      ]_vars

\* A get met a valid index record whose data blob is missing
C8_Witness ==
    /\ last.op = "get"
    /\ last.tier = "dangling"
    /\ last.ret = None
    /\ _is_cache_valid(cache_index, now, last.file_id)
    /\ last.file_id \notin Residents(memory_cache)
    /\ _get_cache_key(last.file_id) \notin DOMAIN data_files

\* C9: from any reachable state, the state left by a put that failed after
\* writing its blob included, remove(id) ends with no index record, no
\* memory-tier entry, no data blob and no metadata blob for id.  (Stated for
\* the removals whose os.remove calls are carried out: the I/O failures of
\* the specification are write and read errors.)
C9_RemoveLeavesNothing ==
    (last.op = "remove" /\ last.raised = {}) =>
        /\ last.file_id \notin DOMAIN cache_index
        /\ last.file_id \notin Residents(memory_cache)
        /\ _get_cache_key(last.file_id) \notin DOMAIN data_files
        /\ _get_cache_key(last.file_id) \notin DOMAIN metadata_files

Candidates == Slice(preload.file_list, preload.max_files)
\* Whether a strictly increasing sequence of positions
Increasing(seq) == \A a, b \in 1..Len(seq) : a < b => seq[a] < seq[b]

\* C11: whatever candidates fail (the download raises or returns nothing,
\* the content does not parse or has no rows, cache_data fails), no exception
\* leaves preload, every later candidate within the limit is still processed,
\* and preload returns the number of candidates for which cache_data returned
\* True; a candidate it has just stored is valid.
C11_PreloadContainsFailures ==
    /\ preload.pc # "raised"
    /\ preload.preloaded = Cardinality(preload.stored)
    /\ preload.pc = "done" => preload.i = Len(Candidates)
    /\ (last.op = "preload_fetch" /\ last.ok)
          => _is_cache_valid(cache_index, now, last.file_id)

\* Of 3 candidates that were not valid the 2nd failed during the download:
\* preload has returned 2, and the 1st and the 3rd are valid
C11_Witness ==
    /\ preload.pc = "done"
    /\ Len(Candidates) = 3
    /\ preload.fetched = <<1, 2, 3>>
    /\ preload.fetch_failed = {2}
    /\ preload.preloaded = 2
    /\ _is_cache_valid(cache_index, now, Candidates[1].id)
    /\ ~_is_cache_valid(cache_index, now, Candidates[2].id)
    /\ _is_cache_valid(cache_index, now, Candidates[3].id)

\* C12: preload does not ask the collaborator for a candidate that is valid
\* when the candidate is examined, also when a request handler made it valid
\* while preload slept; and between a candidate's validity check and its
\* cache_data no other cache operation runs.
C12_NoFetchOfValidCandidate ==
    [][ /\ ( /\ last'.op = "preload_examine"
             /\ preload.i < Len(Candidates)
             /\ _is_cache_valid(cache_index, now, Candidates[preload.i + 1].id) )
           => /\ preload'.pc # "fetching"
              /\ preload'.i = preload.i + 1
              /\ preload'.fetched = preload.fetched
        /\ last'.op = "preload_fetch"
           => /\ preload.pc = "fetching"
              /\ last.op \in {"preload_examine", "tick"}
              /\ ~_is_cache_valid(cache_index, now, last'.file_id)
        /\ preload.pc = "fetching"
           => \/ last'.op = "preload_fetch"
              \/ /\ last'.op = "tick"
                 /\ Store' = Store
      ]_vars

\* Preload has skipped a candidate that a request handler stored while
\* preload slept
C12_Witness ==
    /\ last.op = "preload_examine"
    /\ last.skipped
    /\ last.after_put
    /\ preload.i > 1
    /\ preload.i \notin {preload.fetched[k] : k \in 1..Len(preload.fetched)}

\* C13: preload examines only the first max_files candidates, in the order
\* of the list: its fetches are at increasing positions within those it has
\* passed, one per position at most, so at most max_files fetches and a count
\* of at most max_files; a candidate skipped as valid uses up one of the
\* max_files positions.
C13_LimitBoundsPreload ==
    /\ preload.i <= Len(Candidates)
    /\ Len(Candidates) <= preload.max_files
    /\ Candidates = SubSeq(preload.file_list, 1, Len(Candidates))
    /\ Increasing(preload.fetched)
    /\ \A k \in 1..Len(preload.fetched) : preload.fetched[k] \in 1..preload.i
    /\ Len(preload.fetched) <= preload.max_files
    /\ preload.preloaded <= Len(preload.fetched)
    /\ preload.preloaded <= preload.max_files

\* Preload has returned with a list longer than its limit: it skipped one
\* of the candidates within the limit, fetched the others and none beyond
C13_Witness ==
    /\ preload.pc = "done"
    /\ preload.max_files < Len(preload.file_list)
    /\ preload.i = preload.max_files
    /\ Len(preload.fetched) = preload.max_files - 1
    /\ preload.preloaded = preload.max_files - 1

\* C14: preload sleeps between every two consecutive candidates of its
\* loop, the skipped ones included: when it comes to the candidate at
\* position i + 1 it has slept i times.
C14_SleepsBetweenCandidates ==
    (preload.pc # "idle" /\ preload.i < Len(Candidates)) => preload.sleeps = preload.i

\* C15: a failed download, in get_file_data or in a preload step, changes
\* nothing of the cache: the index, the index file, the memory tier and
\* every blob are what they were.
C15_FetchFailureChangesNothing ==
    [][ ( /\ last'.op \in {"get_table", "preload_fetch"}
          /\ last'.fetched
          /\ last'.kind \in {"raise", "none"} )
           => Store' = Store
      ]_vars

\* A download has failed for an identifier that has a blob on disk, while
\* the index holds a record
C15_Witness ==
    /\ last.op \in {"get_table", "preload_fetch"}
    /\ last.fetched
    /\ last.kind \in {"raise", "none"}
    /\ _get_cache_key(last.file_id) \in DOMAIN data_files
    /\ cache_index # EmptyDict

\* ------------------------------------------------------ application claims
\* A step of get_file_data for an identifier whose rows a get_file_data
\* stored and the memory tier has held since
RequestOfStored ==
    /\ last'.op = "get_table"
    /\ last'.file_id \in DOMAIN history.requested
\* Such a step is served from the cache with the rows that were stored
ServedAsStored ==
    /\ ~last'.fetched
    /\ last'.status = 200
    /\ last'.tier = "memory"
    /\ last'.ret = history.requested[last'.file_id].rows

\* C16 as stated: after a get_table(id) that missed, fetched and stored, the
\* next get_table(id), with no remove, sweep or memory eviction of id in
\* between, is served from the cache, returns the same rows and does not
\* fetch.
C16_SecondRequestServedSameRows ==
    [][ RequestOfStored => ServedAsStored ]_vars

\* C16 as amended: the same, when in between there is also no further
\* cache_data call for id (the preload task stores what it downloads for an
\* identifier whose record has expired).
C16_SecondRequestServedUnlessReput ==
    [][ (RequestOfStored /\ ~history.requested[last'.file_id].reput) => ServedAsStored ]_vars

\* A request has been served from the memory tier the rows an earlier
\* request stored, after the index record expired and the preload task ran
C16_Witness ==
    /\ last.op = "get_table"
    /\ ~last.fetched
    /\ last.file_id \in DOMAIN history.requested
    /\ ~history.requested[last.file_id].reput
    /\ last.ret = history.requested[last.file_id].rows
    /\ ~_is_cache_valid(cache_index, now, last.file_id)
    /\ preload.pc = "done"

\* The blob names of the identifiers S
CacheKeys(S) == {_get_cache_key(f) : f \in S}

\* C17: the blob names are a function of the identifier alone: every data
\* and metadata blob is named by the hash of an identifier, one name per
\* identifier; a cache_data call for an identifier that has a blob, under
\* whatever display name, writes that blob again and adds no name; and the
\* cache_key of every index record is the hash of the record's identifier.
C17_CacheKeyOfIdentifierAlone ==
    [][ /\ \A f \in DOMAIN cache_index : cache_index[f].cache_key = _get_cache_key(f)
        /\ DOMAIN data_files \subseteq CacheKeys(FileIds)
        /\ DOMAIN metadata_files \subseteq CacheKeys(FileIds)
        /\ \A f, g \in FileIds : _get_cache_key(f) = _get_cache_key(g) => f = g
        /\ (last'.op \in {"get_table", "preload_fetch"} /\ last'.put)
           => /\ _get_cache_key(last'.file_id) \in DOMAIN data_files'
              /\ _get_cache_key(last'.file_id) \in DOMAIN data_files
                    => DOMAIN data_files' = DOMAIN data_files
              /\ _get_cache_key(last'.file_id) \in DOMAIN metadata_files
                    => DOMAIN metadata_files' = DOMAIN metadata_files
      ]_vars

\* An identifier stored under one display name has been stored again under
\* another: the index record carries the new name, and the identifier has
\* the one data blob and the one metadata blob it had
C17_Witness ==
    /\ last.op \in {"get_table", "preload_fetch"}
    /\ last.put
    /\ last.ok
    /\ last.over.by # "none"
    /\ last.over.file_name # last.file_name
    /\ cache_index[last.file_id].file_name = last.file_name
    /\ now > 0
    /\ DOMAIN data_files = {_get_cache_key(last.file_id)}
    /\ DOMAIN metadata_files = {_get_cache_key(last.file_id)}

\* C18: after any sequence of put, get, remove and sweep_expired, I/O
\* failures included, every index record has its data blob and its metadata
\* blob on disk, and no data or metadata blob exists for an identifier
\* without an index record.
C18_IndexAndBlobsAgree ==
    /\ \A f \in DOMAIN cache_index :
         /\ cache_index[f].cache_key \in DOMAIN data_files
         /\ cache_index[f].cache_key \in DOMAIN metadata_files
    /\ \A k \in (DOMAIN data_files) \cup (DOMAIN metadata_files) :
         \E f \in DOMAIN cache_index : cache_index[f].cache_key = k

\* C19: when a request handler and the preload task have both called
\* cache_data for one identifier, once both calls have finished the data
\* blob, the metadata blob, the index record and the memory-tier entry all
\* come from the call that finished last.
C19_LastWriterWins ==
    ( /\ last.op \in {"get_table", "preload_fetch"}
      /\ last.put
      /\ last.over.by \notin {"none", last.op} )
       => LET f == last.file_id
              cache_key == _get_cache_key(f)
          IN  /\ cache_key \in DOMAIN data_files
              /\ data_files[cache_key] = pickle_dump(last.df)
              /\ cache_key \in DOMAIN metadata_files
              /\ metadata_files[cache_key] = MetadataJson(f, last.file_name)
              /\ f \in DOMAIN cache_index
              /\ cache_index[f] = IndexRecord(f, last.file_name, now)
              /\ f \in Residents(memory_cache)
              /\ MemoryGet(memory_cache, f) = last.df

\* A miss path (get_file_data or a preload candidate) has called cache_data
MissPathPut == last.op \in {"get_table", "preload_fetch"} /\ last.put

C21_StatsCountEntries ==
    /\ last.op = "stats" =>
         /\ last.ret.total_cached_files = Cardinality(DOMAIN cache_index)
         /\ last.ret.valid_cached_files =
               Cardinality({f \in DOMAIN cache_index : now - LastUpdated(f) < max_cache_age})
         /\ last.ret.memory_cached_files = Cardinality(Residents(memory_cache))
    /\ LET stats == get_cache_stats(Store, now)
       IN  /\ stats.valid_cached_files <= stats.total_cached_files
           /\ stats.memory_cached_files <= memory_cache_max_size

\* stats() has reported more index records than the memory tier holds, some
\* of them expired and some valid, and a full memory tier
C21_Witness ==
    /\ last.op = "stats"
    /\ last.ret.total_cached_files > memory_cache_max_size
    /\ last.ret.valid_cached_files > 0
    /\ last.ret.valid_cached_files < last.ret.total_cached_files
    /\ last.ret.memory_cached_files = memory_cache_max_size

\* ---------------------------------------------------------- classifier claims
\* The base categories of the mapping column_types that hold col
Homes(column_types, col) ==
    {c \in (DOMAIN column_types) \ {"temperature"} : col \in Listed(column_types[c])}
\* Whether no branch of the chain is taken for col
Unmatched(col) == \A c \in BaseCategories : ~Matches(c, col_lower(col), col_base(col))

RuleOrder == <<"temp_stats", "soc_soh", "cell_voltages", "temp_cols", "thermocouple",
               "cell_balancing", "time", "current", "power">>
\* Whether the rule at position k matches col
RuleMatches(k, col) == Matches(RuleOrder[k], col_lower(col), col_base(col))

\* C23: classify applies its rules in the order temp_stats, soc_soh,
\* cell_voltage, temp_cols, thermocouple, cell_balancing, time, current,
\* power, and the first rule that matches decides: a name is in the category
\* of a rule exactly when that rule matches and no earlier rule does.  A name
\* that matches the thermocouple pattern and contains 'current' is never in
\* current and is in thermocouple unless one of the four rules before
\* thermocouple matches; a name that contains 'time' and 'current' is never
\* in current and is in time unless one of the six rules before time matches.
C23_FirstMatchingRuleDecides ==
    last.op = "classify" =>
        \A i \in 1..Len(last.args) :
            LET col == last.args[i]
                homes == Homes(last.ret, col)
            IN  /\ \A k \in 1..Len(RuleOrder) :
                      RuleOrder[k] \in homes
                         <=> (RuleMatches(k, col) /\ \A j \in 1..(k - 1) : ~RuleMatches(j, col))
                /\ (RuleMatches(5, col) /\ in(Literal.current, col_lower(col)))
                      => /\ "current" \notin homes
                         /\ (\A j \in 1..4 : ~RuleMatches(j, col)) => homes = {"thermocouple"}
                /\ (in(Literal.time, col_lower(col)) /\ in(Literal.current, col_lower(col)))
                      => /\ "current" \notin homes
                         /\ (\A j \in 1..6 : ~RuleMatches(j, col)) => homes = {"time"}

\* classify was given a name with the thermocouple prefix that contains
\* 'current', next to a plain current column: the first is in thermocouple,
\* the second alone in current
C23_Witness ==
    /\ last.op = "classify"
    /\ Len(last.args) = 2
    /\ RuleMatches(5, last.args[1])
    /\ in(Literal.current, col_lower(last.args[1]))
    /\ last.ret["thermocouple"] = <<last.args[1]>>
    /\ last.ret["current"] = <<last.args[2]>>
    /\ last.ret["temperature"] = <<last.args[1]>>

\* -------------------------------------------------------- preprocessor claims
\* The nearest value at or above cell i of a column and, where there is
\* none, the nearest below it
NearestValue(cells, i) ==
    LET earlier == {j \in 1..i : cells[j] # NaN}
        later   == {j \in i..Len(cells) : cells[j] # NaN}
    IN  IF earlier # {} THEN cells[CHOOSE j \in earlier : \A k \in earlier : k <= j]
        ELSE IF later # {} THEN cells[CHOOSE j \in later : \A k \in later : j <= k]
        ELSE NaN

\* C24: preprocess fills each missing cell with the nearest earlier value of
\* its column and, where none exists, with the nearest later value, and drops
\* every column that is entirely missing: no column of the output has a
\* missing cell, every column of the output is a column of the input with
\* its cells filled so, and [1, None, None, 4] becomes [1, 1, 1, 4].
C24_FillsForwardThenBackward ==
    (last.op = "preprocess" /\ ~last.ret.raised) =>
        LET given  == last.args.columns
            result == last.ret.df.columns
        IN  /\ \A k \in 1..Len(result) : \A i \in 1..Len(result[k].cells) :
                  result[k].cells[i] # NaN
            /\ \A j \in 1..Len(given) :
                  all_na(given[j].cells) => given[j].name \notin Listed(columns_of(last.ret.df))
            /\ \A k \in 1..Len(result) :
                  \E j \in 1..Len(given) :
                     /\ given[j].name = result[k].name
                     /\ Len(result[k].cells) = Len(given[j].cells)
                     /\ \A i \in 1..Len(given[j].cells) :
                           result[k].cells[i] = NearestValue(given[j].cells, i)
            /\ \A j \in 1..Len(given) :
                  (given[j].name \in DataNames /\ given[j].cells = <<"1", NaN, NaN, "4">>)
                     => \E k \in 1..Len(result) :
                           /\ result[k].name = given[j].name
                           /\ result[k].cells = <<"1", "1", "1", "4">>

\* preprocess was given a column that is all NaN and the column
\* [1, NaN, NaN, 4]: it returned the second alone, as [1, 1, 1, 4]
C24_Witness ==
    /\ last.op = "preprocess"
    /\ ~last.ret.raised
    /\ Len(last.args.columns) = 2
    /\ all_na(last.args.columns[1].cells)
    /\ last.args.columns[2].cells = <<"1", NaN, NaN, "4">>
    /\ Len(last.ret.df.columns) = 1
    /\ last.ret.df.columns[1].name = last.args.columns[2].name
    /\ last.ret.df.columns[1].cells = <<"1", "1", "1", "4">>

\* ------------------------------------------------------------ response claims
\* C25: the table that get_table returns reflects the options, in the full
\* response as in the preview: with selected_columns of which one exists it
\* has only selected columns that exist; with preprocess it is a preprocessed
\* table (preprocessing leaves it as it is); with resample no two of its rows
\* have the same index value.
C25_ResponseReflectsOptions ==
    (last.op = "respond" /\ last.ret.status = 200) =>
        LET options == last.args.options
            data    == last.ret.data
            wanted  == Listed(options.selected_columns) \cap Listed(columns_of(last.args.df))
        IN  /\ wanted # {} => Listed(columns_of(data)) \subseteq wanted
            /\ options.preprocess => preprocess_dataframe(data) = [raised |-> FALSE, df |-> data]
            /\ options.resample =>
                  \/ data.index = RangeIndex
                  \/ \A i, j \in 1..Len(data.index) : data.index[i] = data.index[j] => i = j

\* ------------------------------------------------------------ restart claims
\* C26: after a process restart whose index file loads, the memory tier is
\* empty and the index is the persisted one, and for every identifier that
\* had a valid index record before the restart (it was put successfully and
\* not removed since) get(id) returns its table from the disk tier, the table
\* the memory tier held for it if it was resident, and makes it resident.
C26_RestartServesFromDisk ==
    [][ (last'.op = "restart" /\ last'.kind = "none" /\ index_file.state # "corrupt")
           => /\ memory_cache' = <<>>
              /\ process' = "up"
              /\ cache_index' = index_file.index
              /\ \A f \in DOMAIN cache_index :
                    _is_cache_valid(cache_index, now, f)
                       => LET r == get_cached_data(Store', now, f, "none")
                          IN  /\ r.ret # None
                              /\ r.tier = "disk"
                              /\ f \in Residents(r.memory_cache)
                              /\ f \in Residents(memory_cache)
                                    => r.ret = MemoryGet(memory_cache, f)
      ]_vars

\* C27: when the index file exists at process start and cannot be read or
\* parsed, the cache store is constructed with an empty index and every get
\* is a miss; construction does not fail.
C27_UnreadableIndexStartsEmpty ==
    (last.op = "restart" /\ (index_file.state = "corrupt" \/ last.kind = "read"))
       => /\ process = "up"
          /\ cache_index = EmptyDict
          /\ memory_cache = <<>>
          /\ \A f \in FileIds, fault \in GetFaults :
                get_cached_data(Store, now, f, fault).ret = None

\* ----------------------------------------------------------- validity claims
\* Whether file_id is valid now
Valid(file_id) == _is_cache_valid(cache_index, now, file_id)
\* The time from which the record of file_id is expired
Expiry(file_id) == LastUpdated(file_id) + max_cache_age

C29_ResidentsAreIndexed ==
    /\ Residents(memory_cache) \subseteq DOMAIN cache_index
    /\ last.op = "remove" => last.file_id \notin Residents(memory_cache)
    /\ (last.op = "put" /\ ~last.ok /\ last.file_id \notin DOMAIN cache_index)
          => last.file_id \notin Residents(memory_cache)

\* A remove has raised at a blob: the memory entry is gone and the index
\* record is still there, beside another resident identifier
C29_Witness ==
    /\ last.op = "remove"
    /\ last.raised = {last.file_id}
    /\ last.file_id \in DOMAIN cache_index
    /\ last.file_id \notin Residents(memory_cache)
    /\ Residents(memory_cache) # {}


\* ------------------------------------------------------- memory tier claims
\* The keys of the memory tier in insertion order
KeyOrder(mc) == [i \in 1..Len(mc) |-> mc[i].file_id]

\* C30: a successful put of an identifier that is resident in a memory tier
\* of memory_cache_max_size entries evicts the oldest-inserted resident first:
\* when that is another identifier, it is gone, the other residents keep
\* their order, the identifier keeps its place with the new table, and the
\* tier holds one entry fewer; when it is the identifier itself, the
\* identifier is re-inserted as the newest and the tier stays full.
C30_ResidentPutEvictsOldest ==
    [][ ( /\ last'.op = "put"
          /\ last'.ok
          /\ Len(memory_cache) = memory_cache_max_size
          /\ last'.file_id \in Residents(memory_cache) )
        => IF Head(memory_cache).file_id # last'.file_id
           THEN /\ Head(memory_cache).file_id \notin Residents(memory_cache')
                /\ last'.evicted = {Head(memory_cache).file_id}
                /\ KeyOrder(memory_cache') = Tail(KeyOrder(memory_cache))
                /\ Len(memory_cache') = memory_cache_max_size - 1
                /\ \A i \in 1..Len(memory_cache') :
                      memory_cache'[i].df = IF memory_cache'[i].file_id = last'.file_id
                                            THEN last'.df
                                            ELSE memory_cache[i + 1].df
           ELSE /\ memory_cache' = Append(Tail(memory_cache),
                                          [file_id |-> last'.file_id, df |-> last'.df])
                /\ last'.evicted = {}
                /\ Len(memory_cache') = memory_cache_max_size
      ]_vars

\* A put of a resident identifier has evicted another one: the tier is one
\* short of full and the identifier is not its newest entry
C30_Witness ==
    /\ last.op = "put"
    /\ last.ok
    /\ last.evicted # {}
    /\ last.file_id \notin last.evicted
    /\ Len(memory_cache) = memory_cache_max_size - 1
    /\ memory_cache[Len(memory_cache)].file_id # last.file_id
    /\ MemoryGet(memory_cache, last.file_id) = last.df
====
